---------------------------- MODULE Spec2Model ----------------------------
(* A model of plugin_editor.py: the color codec, the plugin.ini parser,    *)
(* the filename rules, the rebuilder, the open/edit/save session of the    *)
(* editor and the pipette (screen color sampling) session.                 *)
(*                                                                         *)
(* Python strings are sequences of one-character strings; Python's None is *)
(* the value None below, which no such sequence equals.                    *)
EXTENDS Integers, Sequences, FiniteSets, TLC

VARIABLES
    \* parse / infer / edit / rebuild pipeline (parse_ini .. rebuild_ini)
    text, lines, skills, parsed, out, edited, pc,
    \* color picker on one row (open_color_picker_for_row)
    color, prev, picked,
    \* the editor and the files: self.file_path, self.original_lines (and
    \* skills above as self.skills), the files on disk by name; lastRead,
    \* bakWritten and resaved record what load_ini read and save_ini did
    disk, file_path, original_lines, lastRead, bakWritten, resaved,
    \* the pipette: PIPETTE_AVAILABLE, the windows, the listeners of every
    \* session started so far and the {"listener": ...} cells they share
    available, rootHidden, editWin, winHolder, sessions, holders

vars == <<text, lines, skills, parsed, out, edited, pc, color, prev, picked,
          disk, file_path, original_lines, lastRead, bakWritten, resaved,
          available, rootHidden, editWin, winHolder, sessions, holders>>

pipetteVars == <<available, rootHidden, editWin, winHolder, sessions, holders>>

iniVars == <<text, lines, skills, parsed, out, edited, pc>>
codecVars == <<color, prev, picked>>
editorVars == <<disk, file_path, original_lines, lastRead, bakWritten, resaved>>

-----------------------------------------------------------------------------
(* Strings *)

None == <<"None">>

\* str(None) inside an f-string
Str(v) == IF v = None THEN <<"N", "o", "n", "e">> ELSE v

\* a value Python treats as true in "if v" / "not v"
Truthy(v) == v # None /\ v # <<>>

Whitespace == {" ", "\t", "\n", "\r", "\f"}

Lowers == <<"a", "b", "c", "d", "e", "f", "g", "h", "i", "j", "k", "l", "m",
            "n", "o", "p", "q", "r", "s", "t", "u", "v", "w", "x", "y", "z">>
Uppers == <<"A", "B", "C", "D", "E", "F", "G", "H", "I", "J", "K", "L", "M",
            "N", "O", "P", "Q", "R", "S", "T", "U", "V", "W", "X", "Y", "Z">>

\* the characters of the model in code point order (what sorted() compares)
CodePoints == <<"\t", "\n", "\f", "\r", " ", "#", ".",
                "0", "1", "2", "3", "4", "5", "6", "7", "8", "9",
                ":", ";", "=">> \o Uppers \o <<"[", "]", "_">> \o Lowers

Ord(c) == CHOOSE i \in 1..Len(CodePoints) : CodePoints[i] = c

LowerChar(c) ==
    IF \E i \in 1..Len(Uppers) : Uppers[i] = c
    THEN Lowers[CHOOSE i \in 1..Len(Uppers) : Uppers[i] = c] ELSE c

UpperChar(c) ==
    IF \E i \in 1..Len(Lowers) : Lowers[i] = c
    THEN Uppers[CHOOSE i \in 1..Len(Lowers) : Lowers[i] = c] ELSE c

lower(s) == [i \in 1..Len(s) |-> LowerChar(s[i])]
upper(s) == [i \in 1..Len(s) |-> UpperChar(s[i])]

\* the first index at or after i, and the last at or before i, that strip keeps
RECURSIVE FirstKept(_, _)
FirstKept(s, i) ==
    IF i > Len(s) THEN i
    ELSE IF s[i] \notin Whitespace THEN i ELSE FirstKept(s, i + 1)

RECURSIVE LastKept(_, _)
LastKept(s, i) ==
    IF i < 1 THEN i
    ELSE IF s[i] \notin Whitespace THEN i ELSE LastKept(s, i - 1)

strip(s) == SubSeq(s, FirstKept(s, 1), LastKept(s, Len(s)))

startswith(s, p) == Len(s) >= Len(p) /\ SubSeq(s, 1, Len(p)) = p
endswith(s, p) == Len(s) >= Len(p) /\ SubSeq(s, Len(s) - Len(p) + 1, Len(s)) = p

Contains(s, c) == \E i \in 1..Len(s) : s[i] = c

\* s.split(c, 1): the text before and after the first c (s contains c)
RECURSIVE Find(_, _, _)
Find(s, c, i) == IF s[i] = c THEN i ELSE Find(s, c, i + 1)

SplitFirst(s, c) ==
    LET i == Find(s, c, 1)
    IN  <<SubSeq(s, 1, i - 1), SubSeq(s, i + 1, Len(s))>>

\* s.replace(c, "")
RECURSIVE Remove(_, _)
Remove(s, c) ==
    IF s = <<>> THEN <<>>
    ELSE IF Head(s) = c THEN Remove(Tail(s), c)
    ELSE <<Head(s)>> \o Remove(Tail(s), c)

\* a < b as Python compares strings
RECURSIVE StrLess(_, _)
StrLess(a, b) ==
    IF b = <<>> THEN FALSE
    ELSE IF a = <<>> THEN TRUE
    ELSE IF Head(a) = Head(b) THEN StrLess(Tail(a), Tail(b))
    ELSE Ord(Head(a)) < Ord(Head(b))

\* sorted(..., reverse=True)
RECURSIVE sorted_reverse(_)
sorted_reverse(S) ==
    IF S = {} THEN <<>>
    ELSE LET m == CHOOSE x \in S : \A y \in S \ {x} : StrLess(y, x)
         IN  <<m>> \o sorted_reverse(S \ {m})

RECURSIVE sorted(_)
sorted(S) ==
    IF S = {} THEN <<>>
    ELSE LET m == CHOOSE x \in S : \A y \in S \ {x} : StrLess(x, y)
         IN  <<m>> \o sorted(S \ {m})

LineBreaks == {"\n", "\r", "\f"}

\* text.splitlines(): "\r\n" is one break, a last break opens no empty line
RECURSIVE SplitFrom(_, _, _)
SplitFrom(t, i, acc) ==
    IF i > Len(t) THEN acc
    ELSE LET breaks == {j \in i..Len(t) : t[j] \in LineBreaks} IN
         IF breaks = {} THEN Append(acc, SubSeq(t, i, Len(t)))
         ELSE LET j == CHOOSE x \in breaks : \A y \in breaks : x <= y
                  crlf == t[j] = "\r" /\ j < Len(t) /\ t[j + 1] = "\n"
              IN  SplitFrom(t, IF crlf THEN j + 2 ELSE j + 1,
                            Append(acc, SubSeq(t, i, j - 1)))

splitlines(t) == SplitFrom(t, 1, <<>>)

\* "\n".join(ls)
RECURSIVE join(_)
join(ls) ==
    IF ls = <<>> THEN <<>>
    ELSE IF Len(ls) = 1 THEN ls[1]
    ELSE ls[1] \o <<"\n">> \o join(Tail(ls))

-----------------------------------------------------------------------------
(* Color conversion helpers *)

Prefix0x == <<"0", "x">>
ColorLen == 10
White == <<"#", "F", "F", "F", "F", "F", "F">>
OpaqueAlpha == <<"F", "F">>

\* s[a:b] with 0-based a, b as Python slices (clamped to the string)
Slice(s, a, b) ==
    SubSeq(s, a + 1, IF b < Len(s) THEN b ELSE Len(s))

\* ini_to_tk taking color[2:8]: the alpha digits and the first four of RGB
ini_to_tk_alpha(c) ==
    IF ~Truthy(c) \/ ~startswith(c, Prefix0x) \/ Len(c) # ColorLen
    THEN White
    ELSE <<"#">> \o lower(Slice(c, 2, 8))

ini_to_tk(c) ==
    IF ~Truthy(c) \/ ~startswith(c, Prefix0x) \/ Len(c) # ColorLen
    THEN White
    ELSE <<"#">> \o lower(Slice(c, 4, Len(c)))

tk_to_ini(hexcolor, old_ini_color) ==
    IF ~Truthy(hexcolor) THEN old_ini_color
    ELSE LET alpha == IF Truthy(old_ini_color) /\ startswith(old_ini_color, Prefix0x)
                      THEN Slice(old_ini_color, 2, 4) ELSE OpaqueAlpha
         IN  Prefix0x \o alpha \o upper(Remove(hexcolor, "#"))

-----------------------------------------------------------------------------
(* Parsing *)

SectionColor == <<"L", "G", "P", ":", ":", "C", "E", "L", "L", "_", "C", "O", "L", "O", "R">>
SectionImage == <<"L", "G", "P", ":", ":", "C", "E", "L", "L", "_", "I", "M", "A", "G", "E">>
SkillPrefix == <<"S", "k", "i", "l", "l">>
KeyLen == 9
BmpExt == <<".", "b", "m", "p">>

IsHeader(stripped) == startswith(stripped, <<"[">>) /\ endswith(stripped, <<"]">>)
SectionOf(stripped) == SubSeq(stripped, 2, Len(stripped) - 1)

NewEntry == [comment |-> None, image |-> None, color |-> None]

\* skills[key] = e, creating the key when it is new
Put(sk, key, e) == [k \in DOMAIN sk \cup {key} |-> IF k = key THEN e ELSE sk[k]]

\* one iteration of the loop of parse_ini over st = [skills, section, last_comment]
parse_line(st, line) ==
    LET stripped == strip(line) IN
    IF IsHeader(stripped)
    THEN [st EXCEPT !.section = SectionOf(stripped), !.last_comment = None]
    ELSE IF startswith(stripped, <<";">>)
    THEN [st EXCEPT !.last_comment = line]
    ELSE IF Contains(stripped, "=")
    THEN LET kv == SplitFirst(stripped, "=")
             key == strip(kv[1])
             value == strip(kv[2])
         IN  IF startswith(key, SkillPrefix) /\ Len(key) = KeyLen
             THEN LET e0 == IF key \in DOMAIN st.skills THEN st.skills[key] ELSE NewEntry
                      takes == st.section = SectionColor /\ Truthy(st.last_comment)
                      e1 == IF st.section = SectionColor
                            THEN [e0 EXCEPT !.color = value,
                                            !.comment = IF takes THEN st.last_comment ELSE @]
                            ELSE e0
                      e2 == IF st.section = SectionImage
                            THEN [e1 EXCEPT !.image = value] ELSE e1
                  IN  [st EXCEPT !.skills = Put(st.skills, key, e2),
                                 !.last_comment = IF takes THEN None ELSE @]
             ELSE st
    ELSE st

RECURSIVE parse_loop(_, _, _)
parse_loop(ls, i, st) ==
    IF i > Len(ls) THEN st ELSE parse_loop(ls, i + 1, parse_line(st, ls[i]))

\* parse_ini(text) = <<lines, skills>>
parse_ini(t) ==
    LET ls == splitlines(t)
        st == parse_loop(ls, 1, [skills |-> <<>>, section |-> None, last_comment |-> None])
    IN  <<ls, st.skills>>

\* infer_image without the lower()
infer_image_cased(sid, data) ==
    IF ~Truthy(data.image)
    THEN IF Truthy(data.comment) /\ Contains(data.comment, "#")
         THEN [data EXCEPT !.image = strip(SplitFirst(data.comment, "#")[2]) \o BmpExt]
         ELSE [data EXCEPT !.image = sid \o BmpExt]
    ELSE data

infer_image(sid, data) ==
    IF ~Truthy(data.image)
    THEN IF Truthy(data.comment) /\ Contains(data.comment, "#")
         THEN [data EXCEPT !.image = lower(strip(SplitFirst(data.comment, "#")[2])) \o BmpExt]
         ELSE [data EXCEPT !.image = lower(sid) \o BmpExt]
    ELSE data

apply_filename_rules(sk) == [sid \in DOMAIN sk |-> infer_image(sid, sk[sid])]

-----------------------------------------------------------------------------
(* Rebuild INI *)

image_entry(sid, data) ==
    (IF Truthy(data.comment) THEN <<data.comment>> ELSE <<>>)
    \o <<sid \o <<" ", "=", " ">> \o Str(data.image), <<>>>>

color_entry(sid, data) ==
    IF Truthy(data.color)
    THEN (IF Truthy(data.comment) THEN <<data.comment>> ELSE <<>>)
         \o <<sid \o <<"=">> \o Str(data.color), <<>>>>
    ELSE <<>>

RECURSIVE image_body(_, _)
image_body(ids, sk) ==
    IF ids = <<>> THEN <<>>
    ELSE image_entry(Head(ids), sk[Head(ids)]) \o image_body(Tail(ids), sk)

RECURSIVE color_body(_, _)
color_body(ids, sk) ==
    IF ids = <<>> THEN <<>>
    ELSE color_entry(Head(ids), sk[Head(ids)]) \o color_body(Tail(ids), sk)

\* skip_body that ends a body only at the header of a managed section
RECURSIVE skip_to_managed(_, _)
skip_to_managed(ls, i) ==
    IF i > Len(ls) THEN i
    ELSE IF /\ IsHeader(strip(ls[i]))
            /\ SectionOf(strip(ls[i])) \in {SectionColor, SectionImage} THEN i
    ELSE skip_to_managed(ls, i + 1)

\* the inner while loops: the index of the next header at or after i, or n + 1
RECURSIVE skip_body(_, _)
skip_body(ls, i) ==
    IF i > Len(ls) THEN i
    ELSE IF IsHeader(strip(ls[i])) THEN i
    ELSE skip_body(ls, i + 1)

RECURSIVE rebuild_loop(_, _, _, _)
rebuild_loop(ls, i, sk, new_lines) ==
    IF i > Len(ls) THEN new_lines
    ELSE LET line == ls[i]
             stripped == strip(line)
             section == IF IsHeader(stripped) THEN SectionOf(stripped) ELSE None
         IN  IF section = SectionImage
             THEN rebuild_loop(ls, skip_body(ls, i + 1), sk,
                               Append(new_lines, line) \o image_body(sorted(DOMAIN sk), sk))
             ELSE IF section = SectionColor
             THEN rebuild_loop(ls, skip_body(ls, i + 1), sk,
                               Append(new_lines, line) \o color_body(sorted(DOMAIN sk), sk))
             ELSE rebuild_loop(ls, i + 1, sk, Append(new_lines, line))

rebuild_ini(ls, sk) == join(rebuild_loop(ls, 1, sk, <<>>)) \o <<"\n">>

-----------------------------------------------------------------------------
(* Inputs of the pipeline: file texts of at most MaxLines lines *)

MaxLines == 4

Skill1 == SkillPrefix \o <<"0", "0", "0", "1">>
Skill2 == SkillPrefix \o <<"0", "0", "0", "2">>

HeaderColor == <<"[">> \o SectionColor \o <<"]">>
HeaderImage == <<"[">> \o SectionImage \o <<"]">>
HeaderOther == <<"[", "X", "]">>
CommentLine == <<";", " ", "#", "A", "#", "b", " ">>
Skill2Line == Skill2 \o <<" ", "=", " ", "0", "x", "F", "F", "0", "0", "a", "a", "1", "1">>
Skill1Empty == <<" ">> \o Skill1 \o <<"=">>
PlainComment == <<";", "c">>

LineSet == {HeaderColor, HeaderImage, HeaderOther, CommentLine, PlainComment,
            Skill2Line, Skill1Empty}

SeqsUpTo(S, n) == UNION {[1..k -> S] : k \in 0..n}

\* a file of the lines ls, each ended by a newline
TextOf(ls) == IF ls = <<>> THEN <<>> ELSE join(ls) \o <<"\n">>

Texts == {TextOf(ls) : ls \in SeqsUpTo(LineSet, MaxLines)}

\* what the user may type into the fields of the edit window
EntryImages == {<<" ", "n", ".", "b", "m", "p">>}
EntryColors == {<<>>}

-----------------------------------------------------------------------------
(* The pipeline parse_ini -> apply_filename_rules -> edits -> rebuild_ini *)

CodecIdle == color = None /\ prev = None /\ picked = None

EditorIdle ==
    /\ disk = <<>> /\ file_path = None /\ original_lines = <<>>
    /\ lastRead = <<>> /\ bakWritten = <<>> /\ resaved = <<>>

PipetteIdle ==
    /\ available = FALSE /\ rootHidden = FALSE /\ editWin = "none"
    /\ winHolder = 0 /\ sessions = <<>> /\ holders = <<>>

InitIni ==
    /\ text \in Texts
    /\ lines = <<>>
    /\ skills = <<>>
    /\ parsed = <<>>
    /\ out = None
    /\ edited = FALSE
    /\ pc = "open"
    /\ CodecIdle
    /\ EditorIdle
    /\ PipetteIdle

ParseIni ==
    /\ pc = "open"
    /\ LET r == parse_ini(text)
       IN  lines' = r[1] /\ skills' = r[2]
    /\ parsed' = skills'
    /\ pc' = "infer"
    /\ UNCHANGED <<text, out, edited, codecVars, editorVars, pipetteVars>>

ApplyFilenameRules ==
    /\ pc = "infer"
    /\ skills' = apply_filename_rules(skills)
    /\ pc' = "ready"
    /\ UNCHANGED <<text, lines, parsed, out, edited, codecVars, editorVars, pipetteVars>>

\* save_changes of the edit window on the row sid: img and col are the texts
\* of the two fields
save_changes(sk, sid, img, col) ==
    [sk EXCEPT ![sid] = [@ EXCEPT !.image = strip(img), !.color = strip(col)]]

\* edit_selected ... save_changes: the fields start as the entry's values
\* (inserting None into a field fails, so such a row opens no usable window)
SaveChanges(sid, img, col) ==
    /\ pc = "ready"
    /\ sid \in DOMAIN skills
    /\ skills[sid].image # None /\ skills[sid].color # None
    /\ skills' = save_changes(skills, sid, img, col)
    /\ edited' = TRUE
    /\ UNCHANGED <<text, lines, parsed, out, pc, codecVars, editorVars, pipetteVars>>

RebuildIni ==
    /\ pc = "ready"
    /\ out' = rebuild_ini(lines, skills)
    /\ pc' = "done"
    /\ UNCHANGED <<text, lines, skills, parsed, edited, codecVars, editorVars, pipetteVars>>

NextIni ==
    \/ ParseIni
    \/ ApplyFilenameRules
    \/ \E sid \in DOMAIN skills :
         \E img \in EntryImages \cup {skills[sid].image} :
           \E col \in EntryColors \cup {skills[sid].color} :
             SaveChanges(sid, img, col)
    \/ RebuildIni

SpecIni == InitIni /\ [][NextIni]_vars

-----------------------------------------------------------------------------
(* Properties of the pipeline *)

Managed == {SectionColor, SectionImage}

parseAndInfer(t) == <<parse_ini(t)[1], apply_filename_rules(parse_ini(t)[2])>>

\* C1: the text rebuilt from an unedited parse is a fixed point: parsing it,
\* applying the filename rules and rebuilding again gives the same text.
C1_RoundTripFixedPoint ==
    (pc = "done" /\ ~edited)
        => rebuild_ini(parseAndInfer(out)[1], parseAndInfer(out)[2]) = out

\* the lines of ls outside the bodies of the managed sections: the lines
\* before the first header, every header, the lines of the other sections
RECURSIVE OutsideFrom(_, _, _)
OutsideFrom(ls, i, inBody) ==
    IF i > Len(ls) THEN <<>>
    ELSE LET s == strip(ls[i]) IN
         IF IsHeader(s)
         THEN <<ls[i]>> \o OutsideFrom(ls, i + 1, SectionOf(s) \in Managed)
         ELSE IF inBody THEN OutsideFrom(ls, i + 1, inBody)
         ELSE <<ls[i]>> \o OutsideFrom(ls, i + 1, inBody)

OutsideLines(ls) == OutsideFrom(ls, 1, FALSE)

\* C2 as claimed: for any raw lines and entries, the lines of the rebuilt
\* text outside the managed bodies are exactly the raw lines outside them,
\* in the same order (none lost, none changed, none added).
C2_LinePreservation ==
    pc = "done" => OutsideLines(splitlines(out)) = OutsideLines(lines)

\* C2 amended: the same for any raw line sequence that is not empty (an
\* empty file is rebuilt as one empty line).
C2_LinePreservationNonEmpty ==
    (pc = "done" /\ lines # <<>>)
        => OutsideLines(splitlines(out)) = OutsideLines(lines)

C2_Witness ==
    /\ pc = "done"
    /\ edited
    /\ text = TextOf(<<CommentLine, HeaderOther, HeaderColor, Skill2Line>>)
    /\ out # text

\* the text parse_ini is to ignore: a skill key line that is not inside a
\* managed section
RECURSIVE DropUnmanagedKeys(_, _, _)
DropUnmanagedKeys(ls, i, inBody) ==
    IF i > Len(ls) THEN <<>>
    ELSE LET s == strip(ls[i])
             isKey == /\ ~IsHeader(s) /\ ~startswith(s, <<";">>) /\ Contains(s, "=")
                      /\ LET k == strip(SplitFirst(s, "=")[1])
                         IN  startswith(k, SkillPrefix) /\ Len(k) = KeyLen
         IN  IF IsHeader(s)
             THEN <<ls[i]>> \o DropUnmanagedKeys(ls, i + 1, SectionOf(s) \in Managed)
             ELSE IF isKey /\ ~inBody THEN DropUnmanagedKeys(ls, i + 1, inBody)
             ELSE <<ls[i]>> \o DropUnmanagedKeys(ls, i + 1, inBody)

\* C6: skill key lines before the first header or in a section other than
\* the two managed ones create no entry and change no field: the parsed
\* mapping is that of the text without those lines.
C6_IgnoresUnmanagedKeys ==
    pc # "open"
        => parsed = parse_ini(TextOf(DropUnmanagedKeys(lines, 1, FALSE)))[2]

\* the keys of the entry lines of each managed body of ls ascend strictly
RECURSIVE AscendingFrom(_, _, _, _)
AscendingFrom(ls, i, inBody, last) ==
    IF i > Len(ls) THEN TRUE
    ELSE LET s == strip(ls[i]) IN
         IF IsHeader(s)
         THEN AscendingFrom(ls, i + 1, SectionOf(s) \in Managed, None)
         ELSE IF inBody /\ ~startswith(s, <<";">>) /\ Contains(s, "=")
         THEN LET k == strip(SplitFirst(s, "=")[1])
              IN  /\ last = None \/ StrLess(last, k)
                  /\ AscendingFrom(ls, i + 1, inBody, k)
         ELSE AscendingFrom(ls, i + 1, inBody, last)

\* C8: in the rebuilt text the entry lines of each managed section body are
\* in strictly ascending identifier order, so no identifier is there twice.
C8_SortedBodies ==
    pc = "done" => AscendingFrom(splitlines(out), 1, FALSE, None)

C8_Witness ==
    /\ pc = "done"
    /\ text = TextOf(<<HeaderColor, Skill2Line, Skill1Empty, HeaderImage>>)

HasHash(c) == Truthy(c) /\ Contains(c, "#")

\* C9: after apply_filename_rules an entry that had an image keeps it, one
\* without gets the trimmed lower-cased text after the first # of its
\* comment plus .bmp, or without such a comment its lower-cased identifier
\* plus .bmp; nothing else changes, and a second application changes nothing.
C9_FilenameInference ==
    (pc = "ready" /\ ~edited)
        => /\ DOMAIN skills = DOMAIN parsed
           /\ \A sid \in DOMAIN parsed :
                LET b == parsed[sid]
                    a == skills[sid]
                IN  /\ a.comment = b.comment /\ a.color = b.color
                    /\ Truthy(b.image) => a.image = b.image
                    /\ (~Truthy(b.image) /\ HasHash(b.comment))
                         => a.image = lower(strip(SplitFirst(b.comment, "#")[2])) \o BmpExt
                    /\ (~Truthy(b.image) /\ ~HasHash(b.comment))
                         => a.image = lower(sid) \o BmpExt
           /\ apply_filename_rules(skills) = skills

C9_Witness ==
    /\ pc = "ready"
    /\ ~edited
    /\ \E s1 \in DOMAIN parsed :
         /\ ~Truthy(parsed[s1].image) /\ HasHash(parsed[s1].comment)
         /\ skills[s1].image = <<"a", "#", "b">> \o BmpExt

-----------------------------------------------------------------------------
(* The color picker on one row: color is the row's data["color"] *)

IniIdle ==
    /\ text = <<>> /\ lines = <<>> /\ skills = <<>> /\ parsed = <<>>
    /\ out = None /\ edited = FALSE /\ pc = "idle"

\* values a row's color can hold after a file was opened
StoredColors ==
    {None, <<>>,
     <<"0", "x", "8", "0", "a", "a", "b", "b", "c", "c">>,
     <<"0", "x", "f", "f", "A", "A", "0", "0", "1", "1">>,
     <<"0", "x", "7", "F", "1", "2", "3", "4", "5", "6">>,
     <<"0", "x", "8", "0", "1", "1">>,
     <<"0", "x">>,
     <<"r", "e", "d">>,
     <<"0", "X", "8", "0", "1", "1", "2", "2", "3", "3">>}

\* colors the picker dialog may hand back besides the one it was opened with
PickerColors ==
    {<<"#", "1", "a", "2", "B", "3", "c">>, <<"d", "d", "e", "e", "f", "f">>}

InitCodec ==
    /\ color \in StoredColors
    /\ prev = None
    /\ picked = None
    /\ IniIdle
    /\ EditorIdle
    /\ PipetteIdle

\* open_color_picker_for_row (and pick_color of the edit window): hexcolor is
\* what askcolor returns, None when the dialog is cancelled
OpenColorPicker(hexcolor) ==
    /\ pc = "idle"
    /\ picked' = hexcolor
    /\ prev' = color
    /\ color' = IF Truthy(hexcolor) THEN tk_to_ini(hexcolor, color) ELSE color
    /\ UNCHANGED <<iniVars, editorVars, pipetteVars>>

NextCodec ==
    \E hexcolor \in PickerColors \cup {ini_to_tk(color), None} :
        OpenColorPicker(hexcolor)

SpecCodec == InitCodec /\ [][NextCodec]_vars

HexDigits == {"0", "1", "2", "3", "4", "5", "6", "7", "8", "9",
              "a", "b", "c", "d", "e", "f", "A", "B", "C", "D", "E", "F"}

AllHex(s) == \A i \in 1..Len(s) : s[i] \in HexDigits

\* a stored color: 0x and 8 hex digits
ValidStored(c) ==
    /\ c # None /\ Len(c) = ColorLen /\ SubSeq(c, 1, 2) = Prefix0x
    /\ AllHex(SubSeq(c, 3, ColorLen))

\* the picker was opened on the valid color prev and handed back the very
\* display color it was opened with
RoundTripCase == picked # None /\ ValidStored(prev) /\ picked = ini_to_tk(prev)

\* C3 as claimed: for every valid stored color c, in either case,
\* tk_to_ini(ini_to_tk(c), c) = c.
C3_CodecRoundTrip == RoundTripCase => color = prev

\* C3 amended: tk_to_ini(ini_to_tk(c), c) is c with its alpha digits as they
\* were and its six RGB digits in upper case; it is c itself when the RGB
\* digits of c hold no lower-case letter.
C3_CodecRoundTripUpper ==
    RoundTripCase
        => /\ color = SubSeq(prev, 1, 4) \o upper(SubSeq(prev, 5, ColorLen))
           /\ upper(SubSeq(prev, 5, ColorLen)) = SubSeq(prev, 5, ColorLen)
                => color = prev

C3_Witness ==
    /\ RoundTripCase
    /\ prev = <<"0", "x", "f", "f", "A", "A", "0", "0", "1", "1">>
    /\ color = prev

\* a display color: 6 hex digits, with or without a leading #
DisplayColor(h) ==
    /\ h # None
    /\ \/ Len(h) = 6 /\ AllHex(h)
       \/ Len(h) = 7 /\ h[1] = "#" /\ AllHex(Tail(h))

\* C7: for a display color of 6 hex digits and any previous value p the
\* result is 0x, the alpha byte of p when p starts with 0x and has length 10
\* and FF for every other p, then the RGB digits in upper case.
C7_AlphaRule ==
    DisplayColor(picked)
        => LET rgb == IF picked[1] = "#" THEN Tail(picked) ELSE picked
               wellFormed == /\ prev # None /\ Len(prev) = ColorLen
                             /\ SubSeq(prev, 1, 2) = Prefix0x
               alpha == IF wellFormed THEN SubSeq(prev, 3, 4) ELSE <<"F", "F">>
           IN  /\ color = <<"0", "x">> \o alpha \o upper(rgb)
               /\ Len(color) = ColorLen

-----------------------------------------------------------------------------
(* The editor: open a file, edit rows, save *)

PathA == <<"a", ".", "i", "n", "i">>
PathB == <<"b", ".", "i", "n", "i">>
\* the files the open dialog offers (its filter is *.ini)
Paths == {PathA, PathB}

BakExt == <<".", "b", "a", "k">>
Bak(path) == path \o BakExt

NoFile == <<"NoFile">>

\* what the two files hold when the editor starts
InitialFiles ==
    {TextOf(<<HeaderColor, CommentLine, Skill2Line, HeaderImage>>),
     TextOf(<<HeaderImage, Skill2Line, HeaderOther, Skill1Empty>>),
     <<>>}

\* a backup left by an earlier run of the editor
OldBackup == join(<<HeaderColor, HeaderImage>>)

InitEditor ==
    /\ disk \in [Paths \cup {Bak(p) : p \in Paths} -> InitialFiles \cup {NoFile, OldBackup}]
    /\ \A p \in Paths : disk[p] \in InitialFiles /\ disk[Bak(p)] \in {NoFile, OldBackup}
    /\ file_path = None
    /\ original_lines = <<>>
    /\ lastRead = [p \in Paths |-> None]
    /\ bakWritten = [p \in Paths |-> FALSE]
    /\ resaved = [p \in Paths |-> FALSE]
    /\ text = <<>> /\ lines = <<>> /\ skills = <<>> /\ parsed = <<>>
    /\ out = None /\ edited = FALSE /\ pc = "idle"
    /\ CodecIdle
    /\ PipetteIdle

\* load_ini: path is what the open dialog returns, empty when cancelled
load_ini(path) ==
    /\ pc = "idle"
    /\ IF ~Truthy(path)
       THEN UNCHANGED <<file_path, original_lines, skills, lastRead>>
       ELSE LET r == parse_ini(disk[path]) IN
            /\ file_path' = path
            /\ original_lines' = r[1]
            /\ skills' = apply_filename_rules(r[2])
            /\ lastRead' = [lastRead EXCEPT ![path] = r[1]]
    /\ UNCHANGED <<text, lines, parsed, out, edited, pc, codecVars,
                   disk, bakWritten, resaved, pipetteVars>>

\* edit_selected on the row sid, closed with its Save button
edit_selected(sid, img, col) ==
    /\ pc = "idle"
    /\ sid \in DOMAIN skills
    /\ skills[sid].image # None /\ skills[sid].color # None
    /\ skills' = save_changes(skills, sid, img, col)
    /\ UNCHANGED <<text, lines, parsed, out, edited, pc, codecVars, editorVars, pipetteVars>>

\* write_backup without the os.path.exists test
write_backup_always(d, path, orig) == [d EXCEPT ![Bak(path)] = join(orig)]

\* the backup step of save_ini on the files d
write_backup(d, path, orig) ==
    IF d[Bak(path)] = NoFile THEN [d EXCEPT ![Bak(path)] = join(orig)] ELSE d

save_ini ==
    /\ pc = "idle"
    /\ IF ~Truthy(file_path)
       THEN UNCHANGED <<disk, bakWritten, resaved>>
       ELSE LET new_text == rebuild_ini(original_lines, skills)
                backed == write_backup(disk, file_path, original_lines)
            IN  /\ disk' = [backed EXCEPT ![file_path] = new_text]
                /\ bakWritten' = [bakWritten EXCEPT
                                    ![file_path] = @ \/ disk[Bak(file_path)] = NoFile]
                /\ resaved' = [resaved EXCEPT
                                 ![file_path] = @ \/ disk[Bak(file_path)] # NoFile]
    /\ UNCHANGED <<text, lines, skills, parsed, out, edited, pc, codecVars,
                   file_path, original_lines, lastRead, pipetteVars>>

NextEditor ==
    \/ \E path \in Paths \cup {<<>>} : load_ini(path)
    \/ \E sid \in DOMAIN skills :
         \E img \in EntryImages \cup {skills[sid].image} :
           \E col \in EntryColors \cup {skills[sid].color} :
             edit_selected(sid, img, col)
    \/ save_ini

SpecEditor == InitEditor /\ [][NextEditor]_vars

\* C4: save_ini writes <path>.bak only when that file does not exist, and
\* then with the raw lines read when the path was last opened; a backup
\* that exists is never changed by a step of the editor.
C4_OneTimeBackup ==
    [][\A p \in Paths :
         /\ disk[Bak(p)] # NoFile => disk'[Bak(p)] = disk[Bak(p)]
         /\ (disk[Bak(p)] = NoFile /\ disk'[Bak(p)] # NoFile)
              => /\ file_path = p
                 /\ lastRead[p] # None
                 /\ disk'[Bak(p)] = join(lastRead[p])]_vars

\* a backup written in this run has survived a later save of the same path,
\* made after the rewritten file was opened again with other lines
C4_Witness ==
    \E p \in Paths :
        /\ bakWritten[p] /\ resaved[p]
        /\ file_path = p
        /\ disk[Bak(p)] # join(original_lines)
        /\ disk[p] = rebuild_ini(original_lines, skills)

-----------------------------------------------------------------------------
(* The pipette: sampling sessions started from a table row or from the     *)
(* edit window. A session is a pair of listeners, m (pointer) and k (keys), *)
(* each "new", "running" or "stopped"; holders[h] is the session whose      *)
(* pointer listener the cell h names, 0 for None.                           *)

MaxSessions == 2
MaxWindows == 2

HexUpper == <<"0", "1", "2", "3", "4", "5", "6", "7", "8", "9",
              "A", "B", "C", "D", "E", "F">>

\* f"{n:02X}" for a byte n
HexByte(n) == <<HexUpper[(n \div 16) + 1], HexUpper[(n % 16) + 1]>>

rgb_to_ini(r, g, b, old_ini_color) ==
    LET alpha == IF /\ Truthy(old_ini_color) /\ startswith(old_ini_color, Prefix0x)
                    /\ Len(old_ini_color) = ColorLen
                 THEN Slice(old_ini_color, 2, 4) ELSE OpaqueAlpha
    IN  Prefix0x \o alpha \o HexByte(r) \o HexByte(g) \o HexByte(b)

\* pixels the screen may show under the pointer
Pixels == {<<255, 0, 16>>, <<18, 52, 86>>}

InitPipette ==
    /\ available \in BOOLEAN
    /\ rootHidden = FALSE
    /\ editWin = "none"
    /\ winHolder = 0
    /\ sessions = <<>>
    /\ holders = <<>>
    /\ color \in {<<>>, <<"0", "x", "8", "0", "a", "a", "b", "b", "c", "c">>}
    /\ prev = None /\ picked = None
    /\ IniIdle
    /\ EditorIdle

\* the state the handlers of a session read and write
PipetteState ==
    [sessions |-> sessions, holders |-> holders, rootHidden |-> rootHidden,
     editWin |-> editWin, color |-> color]

\* safe_restore of a row session, safe_restore_popup of a popup session (the
\* deiconify of an edit window that is gone fails and is swallowed)
safe_restore(st, s) ==
    [st EXCEPT !.rootHidden = FALSE,
               !.editWin = IF /\ st.sessions[s].kind = "popup" /\ @ = "hidden"
                              /\ st.sessions[s].h = winHolder
                           THEN "shown" ELSE @]

\* the "if listener: listener.stop(); listener = None" of on_click and on_press
stop_held(st, s) ==
    LET h == st.sessions[s].h
        held == st.holders[h]
    IN  IF held # 0
        THEN [st EXCEPT !.sessions[held].m = "stopped", !.holders[h] = 0]
        ELSE st

\* on_move of session s: grabbed is FALSE when the pixel grab raises
on_move(st, s, grabbed, px) ==
    IF grabbed
    THEN [st EXCEPT !.color = rgb_to_ini(px[1], px[2], px[3], st.color)]
    ELSE [st EXCEPT !.sessions[s].err = TRUE]

\* on_click of session s; returning False stops its pointer listener
on_click(st, s, pressed) ==
    IF pressed THEN st
    ELSE [safe_restore(stop_held(st, s), s) EXCEPT
             !.sessions[s].m = "stopped", !.sessions[s].ended = "click"]

\* on_press of session s; returning False stops its key listener
on_press(st, s, key) ==
    IF key # "esc" THEN st
    ELSE [safe_restore(stop_held(st, s), s) EXCEPT
             !.sessions[s].k = "stopped", !.sessions[s].ended = "esc"]

\* an event reaches every listener that runs, one after the other
RECURSIVE deliver_move(_, _, _, _)
deliver_move(st, s, grabbed, px) ==
    IF s > Len(st.sessions) THEN st
    ELSE deliver_move(IF st.sessions[s].m = "running"
                      THEN on_move(st, s, grabbed, px) ELSE st,
                      s + 1, grabbed, px)

RECURSIVE deliver_click(_, _, _)
deliver_click(st, s, pressed) ==
    IF s > Len(st.sessions) THEN st
    ELSE deliver_click(IF st.sessions[s].m = "running"
                       THEN on_click(st, s, pressed) ELSE st,
                       s + 1, pressed)

RECURSIVE deliver_key(_, _, _)
deliver_key(st, s, key) ==
    IF s > Len(st.sessions) THEN st
    ELSE deliver_key(IF st.sessions[s].k = "running"
                     THEN on_press(st, s, key) ELSE st,
                     s + 1, key)

SetPipetteState(st) ==
    /\ sessions' = st.sessions
    /\ holders' = st.holders
    /\ rootHidden' = st.rootHidden
    /\ editWin' = st.editWin
    /\ color' = st.color

PipetteFrame ==
    UNCHANGED <<iniVars, editorVars, prev, picked, available, winHolder>>

WindowCount == Len(holders) - Cardinality({s \in 1..Len(sessions) : sessions[s].kind = "row"})

\* edit_selected: a modal window with its own {"listener": None} cell
OpenEditWindow ==
    /\ ~rootHidden /\ editWin = "none"
    /\ WindowCount < MaxWindows
    /\ editWin' = "shown"
    /\ holders' = Append(holders, 0)
    /\ winHolder' = Len(holders) + 1
    /\ UNCHANGED <<iniVars, editorVars, codecVars, available, rootHidden, sessions>>

\* save_changes with the fields as they are: the window is destroyed
CloseEditWindow ==
    /\ editWin = "shown"
    /\ editWin' = "none"
    /\ color' = strip(color)
    /\ UNCHANGED <<iniVars, editorVars, prev, picked, available, rootHidden,
                   winHolder, sessions, holders>>

\* start_pipette_for_row (kind "row") and start_pipette_popup (kind "popup");
\* started says how far the try block gets: "ok", or the start of the
\* pointer listener ("m_fails") or of the key listener ("k_fails") raises
start_pipette(kind, started) ==
    /\ Len(sessions) < MaxSessions
    /\ IF kind = "row" THEN ~rootHidden /\ editWin = "none" ELSE editWin = "shown"
    /\ IF ~available
       THEN UNCHANGED <<sessions, holders, rootHidden, editWin>>
       ELSE LET s == Len(sessions) + 1
                h == IF kind = "row" THEN Len(holders) + 1 ELSE winHolder
                cells == IF kind = "row" THEN Append(holders, 0) ELSE holders
                new == [kind |-> kind, h |-> h,
                        m |-> IF started = "m_fails" THEN "new" ELSE "running",
                        k |-> IF started = "ok" THEN "running" ELSE "new",
                        err |-> started # "ok", ended |-> "no"]
                st == [sessions |-> Append(sessions, new),
                       holders |-> [cells EXCEPT ![h] = s],
                       rootHidden |-> TRUE,
                       editWin |-> IF kind = "popup" THEN "hidden" ELSE editWin,
                       color |-> color]
                end == IF started = "ok" THEN st ELSE safe_restore(st, s)
            IN  /\ sessions' = end.sessions
                /\ holders' = end.holders
                /\ rootHidden' = end.rootHidden
                /\ editWin' = end.editWin
    /\ UNCHANGED <<iniVars, editorVars, codecVars, available, winHolder>>

\* the pointer moves
MouseMove(grabbed, px) ==
    /\ \E s \in 1..Len(sessions) : sessions[s].m = "running"
    /\ SetPipetteState(deliver_move(PipetteState, 1, grabbed, px))
    /\ PipetteFrame

\* a mouse button goes down (pressed) or up
MouseClick(pressed) ==
    /\ \E s \in 1..Len(sessions) : sessions[s].m = "running"
    /\ SetPipetteState(deliver_click(PipetteState, 1, pressed))
    /\ PipetteFrame

\* a key goes down
KeyPress(key) ==
    /\ \E s \in 1..Len(sessions) : sessions[s].k = "running"
    /\ SetPipetteState(deliver_key(PipetteState, 1, key))
    /\ PipetteFrame

NextPipette ==
    \/ OpenEditWindow
    \/ CloseEditWindow
    \/ \E kind \in {"row", "popup"}, started \in {"ok", "m_fails", "k_fails"} :
         start_pipette(kind, started)
    \/ \E grabbed \in BOOLEAN, px \in Pixels : MouseMove(grabbed, px)
    \/ \E pressed \in BOOLEAN : MouseClick(pressed)
    \/ \E key \in {"esc", "other"} : KeyPress(key)

SpecPipette == InitPipette /\ [][NextPipette]_vars

Sampling(s) == sessions[s].m = "running"
Active(s) == sessions[s].m = "running" \/ sessions[s].k = "running"

\* C5: an error in a sampling session (the pixel grab raising in on_move, a
\* listener failing to start) ends the session and restores the window: no
\* state has the main window hidden with a session still sampling in which
\* an error has occurred.
C5_FailOpen ==
    \A s \in 1..Len(sessions) : sessions[s].err => ~(rootHidden /\ Sampling(s))

\* C10: a session ended by a click release or by escape has both its
\* listeners stopped, and at most one session has listeners running.
C10_SessionEndStopsListeners ==
    /\ \A s \in 1..Len(sessions) : sessions[s].ended # "no" => ~Active(s)
    /\ \A s, t \in 1..Len(sessions) : (Active(s) /\ Active(t)) => s = t

=============================================================================
